---- MODULE Spec2Model ----
(***************************************************************************)
(* The event-submission endpoint of sentry.web.api: the view `store` and   *)
(* the helpers it calls.  A request is served in the order of the source:  *)
(* credential resolution, payload decoding, the project check, timestamp   *)
(* normalisation and the hand-over to Group.objects.from_kwargs.           *)
(*                                                                         *)
(* Python values are modelled as follows.                                  *)
(*   - a dict is a function whose domain is the set of keys it holds;      *)
(*   - None is the string NONE, and dict.get gives NONE for a missing key; *)
(*   - a JSON value is a record [t, v]: t its Python type after            *)
(*     json.loads, v its text;                                             *)
(*   - a call's result is a record [ok, val, exc, msg]: either the value   *)
(*     returned or the class and message of the exception raised.          *)
(***************************************************************************)
EXTENDS Integers, Sequences, FiniteSets, TLC

VARIABLES
  now,       \* the clock time.time() reads
  request,   \* the request served last
  path,      \* the credential branch store took for it
  resolved,  \* whether that branch returned a project
  project,   \* the project it returned: Nothing (None) or Some(pk)
  calls,     \* the helpers store called, in order
  stored,    \* the records Group.objects.from_kwargs was called with
  response   \* what the client got

vars == <<now, request, path, resolved, project, calls, stored, response>>

-----------------------------------------------------------------------------
(* Bounds of the exploration *)

\* sentry_timestamp values "0" .. ToString(MaxTs) are presented
MaxTs == 2
\* the clock advances at most MaxTick seconds past StartTime
MaxTick == 1

-----------------------------------------------------------------------------
(* Program constants *)

\* validate_hmac: time.time() - 3600
ReplayWindow == 3600
\* ensure_valid_project_id: data['project'] = 1
DefaultProject == 1
\* the http_status of the APIError classes, and HttpResponse('')
StatusOK == 200
StatusBadRequest == 400
StatusUnauthorized == 401
StatusForbidden == 403
StatusExpired == 410

\* the first clock reading: one second after the replay window opens on "0"
StartTime == ReplayWindow + 1

NONE == "<None>"
EmptyDict == [k \in {} |-> NONE]

Get(d, k) == IF k \in DOMAIN d THEN d[k] ELSE NONE

\* Python truthiness of a string-or-None
Truthy(s) == s # NONE /\ s # ""

\* a dict made of the pairs whose value is present
MkDict(f, absent) == [k \in {x \in DOMAIN f : f[x] # absent} |-> f[k]]

\* an optional object: <<>> is None, <<x>> is x
Nothing == <<>>
Some(x) == <<x>>

-----------------------------------------------------------------------------
(* Results of calls *)

Return(v) == [ok |-> TRUE, val |-> v, exc |-> "", msg |-> ""]
Raise(cls, m) == [ok |-> FALSE, val |-> NONE, exc |-> cls, msg |-> m]

\* class APIError and its subclasses: http_status
APIErrorStatus ==
  [ APIError            |-> StatusBadRequest,
    APIUnauthorized     |-> StatusUnauthorized,
    APIForbidden        |-> StatusForbidden,
    APITimestampExpired |-> StatusExpired ]

\* class APIError: msg defaults per class, replaced by a truthy argument
APIErrorMsg(cls, m) ==
  IF m # "" THEN m
  ELSE IF cls = "APIUnauthorized" THEN "Unauthorized" ELSE "Invalid request"

IsAPIError(cls) == cls \in DOMAIN APIErrorStatus

HttpResponse(body, status) == [kind |-> "http", status |-> status, body |-> body]

\* an exception that `except APIError` does not catch leaves the view: the
\* view answers nothing of its own
Unhandled(cls) == [kind |-> "unhandled", status |-> 0, body |-> cls]

\* store: except APIError, error: return error.as_http_response()
AsResponse(r) ==
  IF IsAPIError(r.exc)
    THEN HttpResponse(APIErrorMsg(r.exc, r.msg), APIErrorStatus[r.exc])
    ELSE Unhandled(r.exc)

NoResponse == [kind |-> "none", status |-> 0, body |-> ""]

-----------------------------------------------------------------------------
(* The tenant directory: the ProjectMember table *)

ProjectMembers ==
  { [api_key |-> "K1", secret_key |-> "S1", project |-> 42, user |-> "alice",
     perms |-> {"add_message"}],
    [api_key |-> "K2", secret_key |-> "S2", project |-> 7, user |-> "bob",
     perms |-> {}] }

\* settings.KEY, the shared master secret
SettingsKey == "MASTER"

\* ProjectMember.objects.get(**filter): the row, or DoesNotExist; a project
\* is looked up by the text of its id
ObjectsGet(filter) ==
  LET Column(pm, k) == IF k = "project" THEN ToString(pm.project) ELSE pm[k]
      rows == {pm \in ProjectMembers :
                 \A k \in DOMAIN filter : Column(pm, k) = filter[k]}
  IN  IF rows = {} THEN Raise("DoesNotExist", "")
      ELSE Return(CHOOSE pm \in rows : TRUE)

\* pm.has_perm(perm)
HasPerm(pm, perm) == perm \in pm.perms

\* str() of a primary key
StrPk(pk) == ToString(pk)

-----------------------------------------------------------------------------
(* Signature engine *)

\* sentry.utils.auth.get_signature: a keyed digest of timestamp and message
GetSignature(message, timestamp, key) == ToString(<<timestamp, message, key>>)

\* the numerals float() is given here
FarFuture == StartTime + MaxTick + ReplayWindow
Numerals == (0 .. MaxTs) \cup {FarFuture}

\* float(timestamp) of a header field: a number, nan, or ValueError
Float(s) ==
  IF \E n \in Numerals : ToString(n) = s
    THEN Return([nan |-> FALSE, n |-> CHOOSE n \in Numerals : ToString(n) = s])
  ELSE IF s = "nan" THEN Return([nan |-> TRUE, n |-> 0])
  ELSE Raise("ValueError", "")

\* a < b on floats: every comparison with nan is false
FloatLt(a, b) == ~a.nan /\ ~b.nan /\ a.n < b.n

\* validate_hmac with the signature compared before the age is tested
validate_hmac_sig_first(message, signature, timestamp, secret_key, t) ==
  LET f == Float(timestamp)
  IN  IF ~f.ok THEN Raise("APIError", "Invalid timestamp")
      ELSE IF GetSignature(message, timestamp, secret_key) # signature
        THEN Raise("APIForbidden", "Invalid signature")
      ELSE IF FloatLt(f.val, [nan |-> FALSE, n |-> t - ReplayWindow])
        THEN Raise("APITimestampExpired", "Message has expired")
      ELSE Return(NONE)

\* validate_hmac(message, signature, timestamp, secret_key); t is time.time()
validate_hmac(message, signature, timestamp, secret_key, t) ==
  LET f == Float(timestamp)
  IN  IF ~f.ok THEN Raise("APIError", "Invalid timestamp")
      ELSE IF FloatLt(f.val, [nan |-> FALSE, n |-> t - ReplayWindow])
        THEN Raise("APITimestampExpired", "Message has expired")
      ELSE IF GetSignature(message, timestamp, secret_key) # signature
        THEN Raise("APIForbidden", "Invalid signature")
      ELSE Return(NONE)

-----------------------------------------------------------------------------
(* Credential resolver *)

\* a header value: its scheme word and the name=value pairs after it; a header
\* the request does not carry reads as '' (META.get(name, ''))
NoHeader == [scheme |-> "", pairs |-> <<>>]

\* value.startswith('Sentry')
StartsWithSentry(h) == h.scheme = "Sentry"

\* sentry.utils.auth.parse_auth_header: the mapping of the names the header
\* carries to their values (the last one, were a name to come twice)
parse_auth_header(h) ==
  LET At(k) == {i \in DOMAIN h.pairs : h.pairs[i][1] = k}
      Last(k) == CHOOSE i \in At(k) : \A j \in At(k) : j <= i
  IN  [k \in {h.pairs[i][1] : i \in DOMAIN h.pairs} |-> h.pairs[Last(k)][2]]

\* extract_auth_vars(request): Some(dict) or None
extract_auth_vars(req) ==
  IF StartsWithSentry(req.HTTP_X_SENTRY_AUTH)
    THEN Some(parse_auth_header(req.HTTP_X_SENTRY_AUTH))
  ELSE IF StartsWithSentry(req.HTTP_AUTHORIZATION)
    THEN Some(parse_auth_header(req.HTTP_AUTHORIZATION))
  ELSE Nothing

\* the key lookup of project_from_auth_vars: DoesNotExist, raised by get or
\* by the permission test, is caught and becomes APIForbidden
LookupSignedKey(api_key) ==
  LET got == ObjectsGet([api_key |-> api_key])
  IN  IF ~got.ok THEN Raise("APIForbidden", "Invalid signature")
      ELSE IF ~HasPerm(got.val, "add_message")
        THEN Raise("APIForbidden", "Invalid signature")
      ELSE got

\* project_from_auth_vars verifying every signature with settings.KEY
project_from_auth_vars_master_secret(auth_vars, message, t) ==
  LET signature == Get(auth_vars, "sentry_signature")
      timestamp == Get(auth_vars, "sentry_timestamp")
      api_key   == Get(auth_vars, "sentry_key")
      got       == LookupSignedKey(api_key)
  IN  IF ~Truthy(signature) \/ ~Truthy(timestamp) THEN Raise("APIUnauthorized", "")
      ELSE IF Truthy(api_key)
        THEN IF ~got.ok THEN got
             ELSE LET v == validate_hmac(message, signature, timestamp, SettingsKey, t)
                  IN  IF v.ok THEN Return(Some(got.val.project)) ELSE v
      ELSE LET v == validate_hmac(message, signature, timestamp, SettingsKey, t)
           IN  IF v.ok THEN Return(Nothing) ELSE v

\* project_from_auth_vars(auth_vars, data); t is time.time()
project_from_auth_vars(auth_vars, message, t) ==
  LET signature == Get(auth_vars, "sentry_signature")
      timestamp == Get(auth_vars, "sentry_timestamp")
      api_key   == Get(auth_vars, "sentry_key")
      got       == LookupSignedKey(api_key)
  IN  IF ~Truthy(signature) \/ ~Truthy(timestamp) THEN Raise("APIUnauthorized", "")
      ELSE IF Truthy(api_key)
        THEN IF ~got.ok THEN got
             ELSE LET v == validate_hmac(message, signature, timestamp,
                                         got.val.secret_key, t)
                  IN  IF v.ok THEN Return(Some(got.val.project)) ELSE v
      ELSE LET v == validate_hmac(message, signature, timestamp, SettingsKey, t)
           IN  IF v.ok THEN Return(Nothing) ELSE v

\* project_from_api_key_and_id(api_key, project): the second raise is outside
\* the try, so DoesNotExist leaves the function as it is
project_from_api_key_and_id(api_key, project_id) ==
  LET got == ObjectsGet([api_key |-> api_key, project |-> project_id])
  IN  IF ~got.ok THEN Raise("APIUnauthorized", "")
      ELSE IF ~HasPerm(got.val, "add_message") THEN Raise("DoesNotExist", "")
      ELSE Return(Some(got.val.project))

\* project_from_id(request)
project_from_id(req) ==
  LET got == ObjectsGet([user |-> req.user, project |-> req.GET["project_id"]])
  IN  IF ~got.ok THEN Raise("APIUnauthorized", "")
      ELSE Return(Some(got.val.project))

\* request.user.is_authenticated()
IsAuthenticated(user) == user # "AnonymousUser"

\* store, lines 182-191: which branch of the if/elif chain is taken
CredentialPath(req) ==
  LET auth_vars == extract_auth_vars(req)
  IN  IF auth_vars # Nothing /\ auth_vars[1] # EmptyDict THEN "signed"
      ELSE IF Truthy(Get(req.GET, "api_key")) /\ Truthy(Get(req.GET, "project_id"))
              /\ req.is_secure THEN "api_key"
      ELSE IF Truthy(Get(req.GET, "project_id")) /\ IsAuthenticated(req.user)
        THEN "session"
      ELSE "none"

\* store, lines 182-191: the project, or the exception raised
ResolveProject(req, t) ==
  LET branch == CredentialPath(req)
  IN  CASE branch = "signed" ->
             project_from_auth_vars(extract_auth_vars(req)[1], req.raw_post_data, t)
        [] branch = "api_key" ->
             project_from_api_key_and_id(req.GET["api_key"], req.GET["project_id"])
        [] branch = "session" -> project_from_id(req)
        [] OTHER -> Raise("APIUnauthorized", "")

-----------------------------------------------------------------------------
(* Payload decoder *)

\* JSON values after json.loads: t is the Python type ("ustr": a string with
\* a character outside ASCII), v the text of the value
JInt(v)  == [t |-> "int", v |-> v]
JFloat(v) == [t |-> "float", v |-> v]
JStr(v)  == [t |-> "str", v |-> v]
JUStr(v) == [t |-> "ustr", v |-> v]
JNull    == [t |-> "None", v |-> "None"]
DateTime(v) == [t |-> "datetime", v |-> v]
\* what dict.get(key, '') gives for a missing key
JEmptyStr == JStr("")

\* a text: whether its first character is '{', and what json.loads makes of
\* it (kind "object" with the mapping obj, "array", or "invalid")
Text(brace, kind, obj) == [brace |-> brace, kind |-> kind, obj |-> obj]

\* a request body: the text itself (form "json"), its base64 encoding
\* ("b64"), or the base64 encoding of its zlib compression ("b64zlib")
Body(form, text) == [form |-> form, text |-> text]

\* data.startswith('{'): no base64 character is '{'
StartsWithBrace(body) == body.form = "json" /\ body.text.brace

\* base64.b64decode(encoded_data): a text that is not base64 has no valid
\* padding (TypeError)
B64Decode(body) ==
  IF body.form = "json" THEN Raise("TypeError", "Incorrect padding")
  ELSE Return([zlib |-> body.form = "b64zlib", text |-> body.text])

\* bytes.decode('zlib')
ZlibDecode(bytes) ==
  IF bytes.zlib THEN Return(bytes.text) ELSE Raise("zlib.error", "")

\* decode_and_decompress_data(encoded_data)
decode_and_decompress_data(encoded_data) ==
  LET raw == B64Decode(encoded_data)
      unz == ZlibDecode(raw.val)
  IN  IF ~raw.ok THEN Raise("APIForbidden", "Bad data decoding request")
      ELSE IF unz.ok THEN unz
      ELSE Return(raw.val.text)

\* json.loads(json_string)
JsonLoads(text) ==
  IF text.kind = "invalid" THEN Raise("ValueError", "No JSON object could be decoded")
  ELSE Return(text)

\* smart_str(k) of a key json.loads produced: the key's UTF-8 bytes
SmartStr(k) == k

\* safely_load_json_string(json_string): iteritems exists on a dict only
safely_load_json_string(json_string) ==
  LET loaded == JsonLoads(json_string)
  IN  IF ~loaded.ok THEN Raise("APIForbidden", "Bad data reconstructing object")
      ELSE IF loaded.val.kind # "object" THEN Raise("AttributeError", "iteritems")
      ELSE Return([k \in {SmartStr(x) : x \in DOMAIN loaded.val.obj} |->
                     loaded.val.obj[CHOOSE x \in DOMAIN loaded.val.obj : SmartStr(x) = k]])

-----------------------------------------------------------------------------
(* Tenant-consistency check *)

\* str(value) of a JSON value (Python 2: the ascii codec encodes unicode)
Str(x) ==
  IF x.t = "ustr" THEN Raise("UnicodeEncodeError", "ascii") ELSE Return(x.v)

\* dict.get(key, default) on a decoded record
GetOr(d, k, default) == IF k \in DOMAIN d THEN d[k] ELSE default

\* d[k] = v
SetItem(d, k, v) == [x \in DOMAIN d \cup {k} |-> IF x = k THEN v ELSE d[x]]

\* del d[k]
DelItem(d, k) == [x \in DOMAIN d \ {k} |-> d[x]]

\* ensure_valid_project_id leaving the record alone when no project resolved
ensure_valid_project_id_keep(desired_project, d) ==
  LET s == Str(GetOr(d, "project", JEmptyStr))
  IN  IF desired_project # Nothing
        THEN IF ~s.ok THEN s
             ELSE IF s.val # StrPk(desired_project[1])
               THEN Raise("APIForbidden", "Invalid credentials")
             ELSE Return(d)
      ELSE Return(d)

\* ensure_valid_project_id(desired_project, data): the record as it is left
ensure_valid_project_id(desired_project, d) ==
  LET s == Str(GetOr(d, "project", JEmptyStr))
  IN  IF desired_project # Nothing
        THEN IF ~s.ok THEN s
             ELSE IF s.val # StrPk(desired_project[1])
               THEN Raise("APIForbidden", "Invalid credentials")
             ELSE Return(d)
      ELSE Return(SetItem(d, "project", JInt(StrPk(DefaultProject))))

-----------------------------------------------------------------------------
(* Timestamp normalisation and storage *)

\* the strings float() accepts, and those of them fromtimestamp accepts
NumericStrings == {"1704110400", "1e300", "nan"}
EpochStrings   == {"1704110400"}

\* sentry.utils.is_float(var): whether var is numeric
is_float(x) ==
  \/ x.t \in {"int", "float"}
  \/ x.t \in {"str", "ustr"} /\ x.v \in NumericStrings

\* datetime.datetime.fromtimestamp(float(x))
FromTimestamp(x) ==
  IF x.v \in EpochStrings THEN Return(DateTime(x.v)) ELSE Raise("ValueError", "")

\* c in s, for the two characters the code looks for
Contains(s, c) ==
  CASE c = "." -> s \in {"2024-01-01T12:00:00.500", "2024-01-01T12:00:00.500Z",
                         "01.01.2024"}
    [] c = "Z" -> s \in {"2024-01-01T12:00:00Z", "2024-01-01T12:00:00.500Z",
                         "Zulu"}

\* the format each string conforms to, if any
Conforms ==
  [ s \in {"2024-01-01T12:00:00", "2024-01-01T12:00:00Z",
           "2024-01-01T12:00:00.500", "2024-01-01T12:00:00.500Z"} |->
      CASE s = "2024-01-01T12:00:00"      -> "%Y-%m-%dT%H:%M:%S"
        [] s = "2024-01-01T12:00:00Z"     -> "%Y-%m-%dT%H:%M:%SZ"
        [] s = "2024-01-01T12:00:00.500"  -> "%Y-%m-%dT%H:%M:%S.%f"
        [] s = "2024-01-01T12:00:00.500Z" -> "%Y-%m-%dT%H:%M:%S.%fZ" ]

\* datetime.datetime.strptime(s, format)
Strptime(s, format) ==
  IF s \in DOMAIN Conforms /\ Conforms[s] = format
    THEN Return(DateTime(s)) ELSE Raise("ValueError", "")

\* the format lines 155-161 choose
ChooseFormat(s) ==
  LET base == IF Contains(s, ".") THEN "%Y-%m-%dT%H:%M:%S.%f" ELSE "%Y-%m-%dT%H:%M:%S"
  IN  IF Contains(s, "Z")
        THEN (IF Contains(s, ".") THEN "%Y-%m-%dT%H:%M:%S.%fZ" ELSE "%Y-%m-%dT%H:%M:%SZ")
        ELSE base

\* process_data_timestamp(data): the two conversions sit in try/except and
\* drop the field; the tests `'.' in data['timestamp']` do not
process_data_timestamp(d) ==
  LET ts == d["timestamp"]
  IN  IF is_float(ts)
        THEN LET conv == FromTimestamp(ts)
             IN  IF conv.ok THEN Return(SetItem(d, "timestamp", conv.val))
                 ELSE Return(DelItem(d, "timestamp"))
      ELSE IF ts.t = "datetime" THEN Return(d)
      ELSE IF ts.t \notin {"str", "ustr"} THEN Raise("TypeError", "not iterable")
      ELSE LET conv == Strptime(ts.v, ChooseFormat(ts.v))
           IN  IF conv.ok THEN Return(SetItem(d, "timestamp", conv.val))
               ELSE Return(DelItem(d, "timestamp"))

\* what Group.objects.from_kwargs(**data) may do
StorageOutcomes == {"ok", "InvalidInterface", "InvalidData"}

\* insert_data_to_database(data): [result, handed]: handed is the sequence of
\* records from_kwargs was called with
insert_data_to_database(d, outcome) ==
  LET norm == IF "timestamp" \in DOMAIN d THEN process_data_timestamp(d) ELSE Return(d)
  IN  IF ~norm.ok THEN [result |-> norm, handed |-> <<>>]
      ELSE [result |-> IF outcome = "ok" THEN Return(NONE) ELSE Raise("APIError", outcome),
            handed |-> <<norm.val>>]

-----------------------------------------------------------------------------
(* The requests explored *)

JAbsent == [t |-> "absent", v |-> ""]

ProjectValues ==
  {JAbsent, JStr("42"), JInt("42"), JStr("99"), JInt("1"), JUStr("\\u00e9")}

TimestampValues ==
  {JAbsent, JInt("1704110400"), JFloat("1e300"), JStr("1704110400"),
   JStr("2024-01-01T12:00:00"), JStr("2024-01-01T12:00:00Z"),
   JStr("2024-01-01T12:00:00.500"), JStr("2024-01-01T12:00:00.500Z"),
   JStr("not-a-date"), JStr("01.01.2024"), JStr("Zulu"), JNull}

Event(p, ts) ==
  MkDict([message |-> JStr("hi"), project |-> p, timestamp |-> ts], JAbsent)

Objects == {Event(p, ts) : p \in ProjectValues, ts \in TimestampValues}

Texts ==
  {Text(TRUE, "object", o) : o \in Objects}
    \cup {Text(TRUE, "invalid", EmptyDict), Text(FALSE, "invalid", EmptyDict),
          Text(FALSE, "array", EmptyDict),
          Text(FALSE, "object", Event(JStr("42"), JAbsent))}

Bodies == {Body(f, t) : f \in {"json", "b64", "b64zlib"}, t \in Texts}

\* the bodies sent with the requests that vary the credentials
PlainBodies ==
  {Body("json", Text(TRUE, "object", Event(JStr("42"), JAbsent))),
   Body("b64zlib", Text(TRUE, "object", Event(JAbsent, JInt("1704110400"))))}

TamperedBody == Body("json", Text(TRUE, "object", Event(JStr("7"), JAbsent)))

TimestampFields ==
  {NONE, "", "abc", "nan"} \cup {ToString(n) : n \in Numerals}

\* 'Sentry name=value, ...' with the fields that are given
SentryHeader(sig, ts, key, ver) ==
  LET Given(pair) == pair[2] # NONE
  IN  [scheme |-> "Sentry",
       pairs |-> SelectSeq(<< <<"sentry_key", key>>, <<"sentry_signature", sig>>,
                              <<"sentry_timestamp", ts>>, <<"sentry_version", ver>> >>,
                           Given)]

SignatureFields(body, ts) ==
  {NONE} \cup {GetSignature(body, ts, k) : k \in {SettingsKey, "S1", "S2"}}
         \cup {GetSignature(TamperedBody, ts, "S1")}

SentryHeaders(body) ==
  { SentryHeader(sig, ts, key, ver) :
      <<ts, sig>> \in UNION {{<<t, g>> : g \in SignatureFields(body, t)} :
                               t \in TimestampFields},
      key \in {NONE, "K1", "K2", "KX"}, ver \in {NONE, "2.0"} }

BasicHeader == [scheme |-> "Basic", pairs |-> <<>>]

Query(api_key, project_id) ==
  MkDict([api_key |-> api_key, project_id |-> project_id], NONE)

Request(hx, ha, get, secure, user, body) ==
  [HTTP_X_SENTRY_AUTH |-> hx, HTTP_AUTHORIZATION |-> ha, GET |-> get,
   is_secure |-> secure, user |-> user, raw_post_data |-> body]

\* what else a request with a signed header carries
Fallbacks ==
  { <<Query(NONE, NONE), FALSE, "AnonymousUser">>,
    <<Query("K1", "42"), TRUE, "AnonymousUser">>,
    <<Query("K2", "7"), TRUE, "AnonymousUser">>,
    <<Query(NONE, "42"), FALSE, "alice">> }

SignedRequests ==
  UNION { UNION { { Request(h, NoHeader, f[1], f[2], f[3], b),
                    Request(NoHeader, h, f[1], f[2], f[3], b),
                    Request(BasicHeader, h, f[1], f[2], f[3], b) } :
                  h \in SentryHeaders(b), f \in Fallbacks } :
          b \in PlainBodies }

\* both headers signed: X-Sentry-Auth is the one read
TwoHeaderRequests ==
  { Request(SentryHeader(GetSignature(b, ToString(FarFuture), "S1"),
                               ToString(FarFuture), "K1", NONE),
            SentryHeader(NONE, NONE, "KX", NONE),
            Query(NONE, NONE), FALSE, "AnonymousUser", b) : b \in PlainBodies }
  \cup
  { Request(SentryHeader(NONE, NONE, "KX", NONE),
            SentryHeader(GetSignature(b, ToString(FarFuture), "S1"),
                               ToString(FarFuture), "K1", NONE),
            Query(NONE, NONE), FALSE, "AnonymousUser", b) : b \in PlainBodies }

UnsignedRequests ==
  { Request(NoHeader, ha, Query(k, p), secure, user, b) :
      ha \in {NoHeader, BasicHeader},
      k \in {NONE, "", "K1", "K2", "KX"}, p \in {NONE, "42", "7", "99"},
      secure \in BOOLEAN, user \in {"AnonymousUser", "alice", "bob", "carol"},
      b \in PlainBodies }

\* every body, under each way of being admitted
AdmittedRequests ==
  UNION { { Request(SentryHeader(GetSignature(b, ToString(FarFuture), SettingsKey),
                                       ToString(FarFuture), NONE, NONE),
                    NoHeader, Query(NONE, NONE), FALSE, "AnonymousUser", b),
            Request(SentryHeader(GetSignature(b, ToString(FarFuture), "S1"),
                                       ToString(FarFuture), "K1", NONE),
                    NoHeader, Query(NONE, NONE), FALSE, "AnonymousUser", b),
            Request(NoHeader, NoHeader, Query("K1", "42"), TRUE, "AnonymousUser", b),
            Request(NoHeader, NoHeader, Query(NONE, "42"), FALSE, "alice", b) } :
          b \in Bodies }

Requests == SignedRequests \cup TwoHeaderRequests \cup UnsignedRequests
              \cup AdmittedRequests

NoRequest ==
  Request(NoHeader, NoHeader, EmptyDict, FALSE, "AnonymousUser",
          Body("json", Text(FALSE, "invalid", EmptyDict)))

-----------------------------------------------------------------------------
(* The view *)

\* store decoding the body before it looks at the credentials
Serve_decode_first(req, t, outcome) ==
  LET branch == CredentialPath(req)
      auth   == ResolveProject(req, t)
      raw    == req.raw_post_data
      dec    == IF StartsWithBrace(raw) THEN Return(raw.text)
                ELSE decode_and_decompress_data(raw)
      load   == safely_load_json_string(dec.val)
      ens    == ensure_valid_project_id(auth.val, load.val)
      ins    == insert_data_to_database(ens.val, outcome)
      c1     == IF StartsWithBrace(raw) THEN <<>> ELSE <<"decode_and_decompress_data">>
      c2     == Append(c1, "safely_load_json_string")
      c3     == IF branch = "none" THEN c2 ELSE Append(c2, branch)
      c4     == Append(c3, "ensure_valid_project_id")
      c5     == Append(c4, "insert_data_to_database")
      Out(result, cs, handed, known) ==
        [path |-> branch, resolved |-> known /\ auth.ok,
         project |-> IF known /\ auth.ok THEN auth.val ELSE Nothing,
         calls |-> cs, stored |-> handed,
         response |-> IF result.ok THEN HttpResponse("", StatusOK)
                      ELSE AsResponse(result)]
  IN  IF ~dec.ok THEN Out(dec, c1, <<>>, FALSE)
      ELSE IF ~load.ok THEN Out(load, c2, <<>>, FALSE)
      ELSE IF ~auth.ok THEN Out(auth, c3, <<>>, TRUE)
      ELSE IF ~ens.ok THEN Out(ens, c4, <<>>, TRUE)
      ELSE Out(ins.result, c5, ins.handed, TRUE)

\* store(request), with the clock at t and the storage answering `outcome`:
\* the helpers called, in order, and what came of them
Serve(req, t, outcome) ==
  LET branch == CredentialPath(req)
      auth   == ResolveProject(req, t)
      raw    == req.raw_post_data
      dec    == IF StartsWithBrace(raw) THEN Return(raw.text)
                ELSE decode_and_decompress_data(raw)
      load   == safely_load_json_string(dec.val)
      ens    == ensure_valid_project_id(auth.val, load.val)
      ins    == insert_data_to_database(ens.val, outcome)
      c1     == IF branch = "none" THEN <<>> ELSE <<branch>>
      c2     == IF StartsWithBrace(raw) THEN c1
                ELSE Append(c1, "decode_and_decompress_data")
      c3     == Append(c2, "safely_load_json_string")
      c4     == Append(c3, "ensure_valid_project_id")
      c5     == Append(c4, "insert_data_to_database")
      Out(result, cs, handed) ==
        [path |-> branch, resolved |-> auth.ok,
         project |-> IF auth.ok THEN auth.val ELSE Nothing,
         calls |-> cs, stored |-> handed,
         response |-> IF result.ok THEN HttpResponse("", StatusOK)
                      ELSE AsResponse(result)]
  IN  IF ~auth.ok THEN Out(auth, c1, <<>>)
      ELSE IF ~dec.ok THEN Out(dec, c2, <<>>)
      ELSE IF ~load.ok THEN Out(load, c3, <<>>)
      ELSE IF ~ens.ok THEN Out(ens, c4, <<>>)
      ELSE Out(ins.result, c5, ins.handed)

Init ==
  /\ now = StartTime
  /\ request = NoRequest
  /\ path = "none"
  /\ resolved = FALSE
  /\ project = Nothing
  /\ calls = <<>>
  /\ stored = <<>>
  /\ response = NoResponse

Idle == response = NoResponse

\* one request is served from start to end
store ==
  /\ Idle
  /\ \E req \in Requests, outcome \in StorageOutcomes :
       LET out == Serve(req, now, outcome)
       IN  /\ request' = req
           /\ path' = out.path
           /\ resolved' = out.resolved
           /\ project' = out.project
           /\ calls' = out.calls
           /\ stored' = out.stored
           /\ response' = out.response
           /\ UNCHANGED now

\* the response is sent; nothing of the request is kept
Finish ==
  /\ ~Idle
  /\ request' = NoRequest
  /\ path' = "none"
  /\ resolved' = FALSE
  /\ project' = Nothing
  /\ calls' = <<>>
  /\ stored' = <<>>
  /\ response' = NoResponse
  /\ UNCHANGED now

\* time passes between requests
Tick ==
  /\ Idle
  /\ now < StartTime + MaxTick
  /\ now' = now + 1
  /\ UNCHANGED <<request, path, resolved, project, calls, stored, response>>

Next == store \/ Finish \/ Tick

Spec == Init /\ [][Next]_vars

-----------------------------------------------------------------------------
(* What the properties read off the request served *)

Served == ~Idle

\* a header the endpoint recognises as a signed credential
Recognized ==
  \/ request.HTTP_X_SENTRY_AUTH.scheme = "Sentry"
  \/ request.HTTP_AUTHORIZATION.scheme = "Sentry"

\* the pairs of the header that is read
PresentedPairs ==
  IF request.HTTP_X_SENTRY_AUTH.scheme = "Sentry"
    THEN request.HTTP_X_SENTRY_AUTH.pairs
    ELSE request.HTTP_AUTHORIZATION.pairs

\* the value the header gives a field
Presented(k) ==
  IF \E i \in DOMAIN PresentedPairs : PresentedPairs[i][1] = k
    THEN PresentedPairs[CHOOSE i \in DOMAIN PresentedPairs : PresentedPairs[i][1] = k][2]
    ELSE NONE

ApiKeyEligible ==
  /\ request.is_secure
  /\ Truthy(Get(request.GET, "api_key"))
  /\ Truthy(Get(request.GET, "project_id"))

SessionEligible ==
  /\ request.user # "AnonymousUser"
  /\ Truthy(Get(request.GET, "project_id"))

\* the members a presented key names
KeyHolders(k) == {pm \in ProjectMembers : pm.api_key = k}
Submitters(k) == {pm \in KeyHolders(k) : "add_message" \in pm.perms}

\* the presented sentry_timestamp is a number below now - 3600
TimestampTooOld ==
  \E n \in Numerals :
    ToString(n) = Presented("sentry_timestamp") /\ n < now - ReplayWindow

TimestampParses ==
  Presented("sentry_timestamp") \in {ToString(n) : n \in Numerals} \cup {"nan"}

\* the secret a signed request is verified with
SelectedSecret ==
  IF Presented("sentry_key") = NONE THEN SettingsKey
  ELSE (CHOOSE pm \in KeyHolders(Presented("sentry_key")) : TRUE).secret_key

SignatureMatches ==
  Presented("sentry_signature")
    = GetSignature(request.raw_post_data, Presented("sentry_timestamp"), SelectedSecret)

\* the mapping the body of the request stands for
Sent == request.raw_post_data.text

ErrorResponse(status) == response.kind = "http" /\ response.status = status

Called(name) == \E i \in 1 .. Len(calls) : calls[i] = name

-----------------------------------------------------------------------------
(* C1 *)

-----------------------------------------------------------------------------
(* C2 *)

\* C2: every request ends with the empty success response or with an error
\* response of status 400, 401, 403 or 410; no exception leaves the view.
C2_OnlyClientErrors ==
  Served =>
    \/ response = HttpResponse("", StatusOK)
    \/ /\ response.kind = "http"
       /\ response.status \in {StatusBadRequest, StatusUnauthorized,
                               StatusForbidden, StatusExpired}

-----------------------------------------------------------------------------
(* C3 *)

\* C3: on the API-key branch a key not found under the given project id and
\* a key found without the add_message permission both end in 401.
C3_MissingPermissionIsUnauthorized ==
  (Served /\ ~Recognized /\ ApiKeyEligible) =>
    LET rows == {pm \in KeyHolders(request.GET["api_key"]) :
                   ToString(pm.project) = request.GET["project_id"]}
    IN  (rows = {} \/ \E pm \in rows : "add_message" \notin pm.perms)
          => response = HttpResponse("Unauthorized", StatusUnauthorized)

-----------------------------------------------------------------------------
(* C4 *)

\* C4 as claimed: a signed request with a signature and a timestamp older
\* than now - 3600 ends in 410 whichever key accompanies it.
C4_ExpiredWhateverKey ==
  (Served /\ path = "signed" /\ Truthy(Presented("sentry_signature"))
          /\ TimestampTooOld)
    => ErrorResponse(StatusExpired)

\* C4 as amended: a signed request with a signature, a timestamp older than
\* now - 3600 and either no key or a key of a member with the add_message
\* permission ends in 410, whether or not the signature matches.
C4_ExpiredBeforeSignature ==
  (Served /\ path = "signed" /\ Truthy(Presented("sentry_signature"))
          /\ TimestampTooOld
          /\ (Truthy(Presented("sentry_key"))
                => Submitters(Presented("sentry_key")) # {}))
    => response = HttpResponse("Message has expired", StatusExpired)

C4_Witness ==
  /\ Served /\ path = "signed" /\ TimestampTooOld
  /\ Presented("sentry_key") = "K1"
  /\ SignatureMatches
  /\ ErrorResponse(StatusExpired)

-----------------------------------------------------------------------------
(* C5 *)

\* C5: every record from_kwargs is called with has a 'project' whose string
\* form is the id of the project the credentials resolved to, or 1 when they
\* resolved to none, whatever the body said.
C5_StoredProjectIsTenant ==
  \A i \in 1 .. Len(stored) :
    /\ "project" \in DOMAIN stored[i]
    /\ stored[i]["project"].t \in {"int", "str"}
    /\ stored[i]["project"].v
         = ToString(IF project = Nothing THEN DefaultProject ELSE project[1])

C5_Witness ==
  /\ Len(stored) = 1
  /\ resolved /\ project = Nothing
  /\ "project" \in DOMAIN Sent.obj
  /\ Sent.obj["project"] = JStr("99")
  /\ stored[1]["project"] = JInt("1")

-----------------------------------------------------------------------------
(* C6 *)

\* C6: with a project resolved, the check answers 403 'Invalid credentials'
\* exactly when the record has a 'project' field whose string form differs
\* from the project's id; a record without the field is not rejected.
C6_RejectsExactlyOnMismatch ==
  (Served /\ project # Nothing /\ Called("ensure_valid_project_id")) =>
    ( response = HttpResponse("Invalid credentials", StatusForbidden)
        <=> /\ "project" \in DOMAIN Sent.obj
            /\ Sent.obj["project"].v # ToString(project[1]) )

-----------------------------------------------------------------------------
(* C7 *)

Downstream ==
  {"decode_and_decompress_data", "safely_load_json_string",
   "ensure_valid_project_id", "insert_data_to_database"}

-----------------------------------------------------------------------------
(* C8 *)

\* C8: an authenticated request whose body fails base64 decoding, is not
\* JSON, or is JSON but not a mapping ends in 403 and nothing is stored.
C8_MalformedBodyIsForbidden ==
  (Served /\ resolved
     /\ \/ (request.raw_post_data.form = "json" /\ ~Sent.brace)
        \/ Sent.kind # "object")
    => (ErrorResponse(StatusForbidden) /\ stored = <<>>)

-----------------------------------------------------------------------------
(* C9 *)

\* C9: a record that reaches normalisation with a 'timestamp' of any JSON
\* value is handed to storage with the field a datetime or removed.
C9_TimestampNeverFails ==
  (Served /\ Called("insert_data_to_database") /\ "timestamp" \in DOMAIN Sent.obj)
    => /\ Len(stored) = 1
       /\ \/ "timestamp" \notin DOMAIN stored[1]
          \/ stored[1]["timestamp"].t = "datetime"

-----------------------------------------------------------------------------
(* C10 *)

\* C10: validate_hmac decides in this order: unparseable timestamp, 400
\* 'Invalid timestamp'; timestamp below now - 3600, 410; signature other than
\* the one of the received body, timestamp and selected secret, 403; else it
\* passes.  A timestamp at or after now - 3600 is never answered 410.
C10_ValidateHmacOrder ==
  (Served /\ path = "signed"
     /\ Truthy(Presented("sentry_signature")) /\ Truthy(Presented("sentry_timestamp"))
     /\ (Truthy(Presented("sentry_key")) => Submitters(Presented("sentry_key")) # {}))
    => /\ CASE ~TimestampParses ->
                 response = HttpResponse("Invalid timestamp", StatusBadRequest)
            [] TimestampParses /\ TimestampTooOld ->
                 response = HttpResponse("Message has expired", StatusExpired)
            [] TimestampParses /\ ~TimestampTooOld /\ ~SignatureMatches ->
                 response = HttpResponse("Invalid signature", StatusForbidden)
            [] OTHER -> resolved
       /\ ~TimestampTooOld => ~ErrorResponse(StatusExpired)

C10_Witness ==
  /\ Served /\ path = "signed" /\ resolved
  /\ Presented("sentry_timestamp") = ToString(now - ReplayWindow)
  /\ Presented("sentry_key") = "K1"

====
